---- MODULE Spec2Model ----
(***************************************************************************)
(* Transaction settlement, shift tracking and stock control of the POS     *)
(* backend (server/src/handlers/transactions.ts, handlers/shifts.ts,       *)
(* handlers/products.ts over the tables of server/src/db/schema.ts).       *)
(*                                                                         *)
(* Every handler is a sequence of awaited SQL statements.  One statement   *)
(* is one atomic step of the process (request) that runs the handler; the  *)
(* steps of different requests interleave in the concurrent                *)
(* specifications and run back to back in the serial one.                  *)
(*                                                                         *)
(* Money is counted in units of 1/Sub of a cent.  A JavaScript number may  *)
(* carry any fraction of a cent; a numeric(10,2) column keeps whole cents, *)
(* which are the multiples of Sub.                                         *)
(***************************************************************************)
EXTENDS Integers, Sequences, FiniteSets, TLC

\* ------------------------------------------------------------------ bounds
Sub == 2            \* money units per cent (resolution of a JS number)
MaxTime == 1        \* the clock runs from 0 to MaxTime
MaxTxns == 2        \* transactions rows the serial model creates
MaxShifts == 2      \* shift rows the model creates
MaxStock == 3       \* manual restocking stops at this quantity
MaxRandom == 2      \* Math.random() draws one of MaxRandom strings

NULL == -1          \* SQL NULL of a nullable column

Server == 0                     \* the process that serves calls one at a time
Clients == {1, 2}               \* the processes that serve concurrent calls
Procs == {Server} \cup Clients
UserIds == {1, 2}               \* rows of usersTable
VariantIds == {1, 2}            \* rows of productVariantsTable
InitStock == <<2, 1>>           \* their stock_quantity when created
low_stock_threshold == <<1, 0>> \* their low_stock_threshold when created

\* ----------------------------------------------------------------- helpers
Abs(x) == IF x < 0 THEN -x ELSE x

\* number.toString() stored into a numeric(10,2) column: Postgres rounds the
\* decimal text to two fractional digits, ties away from zero.
ToNumeric(x) ==
    LET q == ((2 * Abs(x) + Sub) \div (2 * Sub)) * Sub
    IN  IF x < 0 THEN -q ELSE q

\* parseFloat of a numeric(10,2) text: the nearest double of a value of at
\* most ten digits, which prints back as the same two-decimal value.
ParseFloat(s) == s

\* ------------------------------------------------------------------- state
VARIABLES
    stock_quantity,     \* productVariantsTable.stock_quantity, by variant id
    transactions,       \* transactionsTable, row i has id i
    transaction_items,  \* transactionItemsTable, in insertion order
    shifts,             \* shiftsTable, row i has id i
    clock,              \* the time new Date() and defaultNow() read
    proc,               \* per request: handler, input, position, locals
    history,            \* bookkeeping of the calls that returned (not stored)
    users               \* usersTable, row i has id i

vars == <<stock_quantity, transactions, transaction_items, shifts, clock,
          proc, history, users>>

\* The stored rows a handler can read or write.
DB == [stock |-> stock_quantity, transactions |-> transactions,
       items |-> transaction_items, shifts |-> shifts]

NoRow == [id |-> 0]

\* The quantity of a variant on the lines (input lines or item rows) of a sale.
RECURSIVE Quantity(_, _)
Quantity(lines, variantId) ==
    IF lines = <<>> THEN 0
    ELSE (IF Head(lines).product_variant_id = variantId
          THEN Head(lines).quantity ELSE 0)
         + Quantity(Tail(lines), variantId)

\* A row of usersTable.  password_hash is the Bun.password.hash of the
\* password: a value that verifies against that password and no other.
User(id, username, password, role) ==
    [id |-> id, username |-> username,
     password_hash |-> [hash_of |-> password], role |-> role,
     is_active |-> TRUE]

\* The users that exist from the start: the cashiers of UserIds.
InitUsers ==
    <<User(1, "kasir1", "rahasia1", "cashier"),
      User(2, "kasir2", "rahasia2", "cashier")>>

NoHistory ==
    [lastSale |-> 0, stockBefore |-> InitStock, stock |-> InitStock,
     sales |-> [c \in UserIds |-> 0], count |-> [c \in UserIds |-> 0]]

\* A request that is not running.  res is the outcome of the call: "none"
\* while it runs, "ok" when it returned, else the error it threw.
IdleProc ==
    [pc |-> "idle", op |-> "none", input |-> NoRow, i |-> 0,
     transaction |-> NoRow, items |-> <<>>, shift |-> NoRow,
     salesData |-> NoRow, rows |-> {}, transactionNumber |-> NoRow,
     res |-> "none", snap |-> NoRow]

Running(p) == proc[p].pc \notin {"idle", "done"}
Serial == \A q \in Procs : proc[q].pc = "idle"

Init ==
    /\ stock_quantity = InitStock
    /\ transactions = <<>>
    /\ transaction_items = <<>>
    /\ shifts = <<>>
    /\ clock = 0
    /\ proc = [p \in Procs |-> IdleProc]
    /\ history = NoHistory
    /\ users = InitUsers

\* A call starts: the handler and its input.  The serial process also notes
\* what is stored at that time, for the claims about calls run one at a time.
Call(p, op, input, pc) ==
    [IdleProc EXCEPT !.pc = pc, !.op = op, !.input = input, !.i = 1,
                     !.snap = IF p = Server THEN DB ELSE NoRow]

\* return (res = "ok") or throw (res = the error): the handler is over.
Finish(p, res) == [proc EXCEPT ![p].pc = "done", ![p].res = res]

Goto(p, pc) == [proc EXCEPT ![p].pc = pc]

\* Time passes between two statements.
Tick ==
    /\ clock < MaxTime
    /\ clock' = clock + 1
    /\ UNCHANGED <<stock_quantity, transactions, transaction_items, shifts,
                   proc, history, users>>

\* The caller receives the result or the error.  history notes what the
\* call was asked to do.  For the serial process: the sale it completed and
\* the stock before it.  For the concurrent clients: per variant and per
\* cashier the net effect of the calls that succeeded (quantities sold,
\* restored and adjusted; amounts and sales added to and taken from the
\* cashier's counters).
Return(p) ==
    /\ proc[p].pc = "done"
    /\ proc' = [proc EXCEPT ![p] = IdleProc]
    /\ history' =
         LET ok == proc[p].res = "ok"
             client == ok /\ p \in Clients
             op == proc[p].op
             in == proc[p].input
         IN
         [lastSale |->
            IF ok /\ op = "createTransaction" /\ p = Server
            THEN proc[p].transaction.id ELSE 0,
          stockBefore |->
            IF ok /\ op = "createTransaction" /\ p = Server
            THEN proc[p].snap.stock ELSE InitStock,
          stock |->
            [v \in VariantIds |->
               history.stock[v]
               + (IF client /\ op = "createTransaction"
                  THEN -Quantity(in.items, v) ELSE 0)
               + (IF client /\ op = "refundTransaction"
                  THEN Quantity(proc[p].items, v) ELSE 0)
               + (IF client /\ op = "updateStock" /\ in.variantId = v
                  THEN in.quantity ELSE 0)],
          sales |->
            [c \in UserIds |->
               history.sales[c]
               + (IF client /\ op = "createTransaction" /\ in.cashier_id = c
                  THEN proc[p].transaction.total_amount ELSE 0)
               - (IF client /\ op = "refundTransaction"
                        /\ proc[p].transaction.cashier_id = c
                  THEN proc[p].transaction.total_amount ELSE 0)],
          count |->
            [c \in UserIds |->
               history.count[c]
               + (IF client /\ op = "createTransaction" /\ in.cashier_id = c
                  THEN 1 ELSE 0)
               - (IF client /\ op = "refundTransaction"
                        /\ proc[p].transaction.cashier_id = c
                  THEN 1 ELSE 0)]]
    /\ UNCHANGED <<stock_quantity, transactions, transaction_items, shifts,
                   clock, users>>

\* -------------------------------------------------------------- shifts.ts
OpenShiftOf(rows, cashierId) ==
    {k \in 1..Len(rows) :
        rows[k].cashier_id = cashierId /\ rows[k].end_time = NULL}

StartShiftBegin(p, cashierId, openingCash) ==
    /\ proc[p].pc = "idle"
    /\ Len(shifts) + Cardinality({q \in Procs :
                                      Running(q) /\ proc[q].op = "startShift"})
         < MaxShifts
    /\ proc' = [proc EXCEPT ![p] =
         Call(p, "startShift",
              [cashierId |-> cashierId, openingCash |-> openingCash],
              "select_cashier")]
    /\ UNCHANGED <<stock_quantity, transactions, transaction_items, shifts,
                   clock, history, users>>

\* Check if cashier exists
StartShiftSelectCashier(p) ==
    /\ proc[p].op = "startShift" /\ proc[p].pc = "select_cashier"
    /\ proc' = IF proc[p].input.cashierId \notin UserIds
               THEN Finish(p, "cashier_not_found")
               ELSE Goto(p, "select_active_shift")
    /\ UNCHANGED <<stock_quantity, transactions, transaction_items, shifts,
                   clock, history, users>>

\* startShift without the check for an active shift.
StartShiftSelectActiveSkipped(p) ==
    /\ proc[p].op = "startShift" /\ proc[p].pc = "select_active_shift"
    /\ proc' = Goto(p, "insert_shift")
    /\ UNCHANGED <<stock_quantity, transactions, transaction_items, shifts,
                   clock, history, users>>

\* Check if cashier already has an active shift
StartShiftSelectActive(p) ==
    /\ proc[p].op = "startShift" /\ proc[p].pc = "select_active_shift"
    /\ proc' = IF OpenShiftOf(shifts, proc[p].input.cashierId) # {}
               THEN Finish(p, "already_active")
               ELSE Goto(p, "insert_shift")
    /\ UNCHANGED <<stock_quantity, transactions, transaction_items, shifts,
                   clock, history, users>>

NewShift(id, cashierId, openingCash, now) ==
    [id |-> id, cashier_id |-> cashierId, start_time |-> now,
     end_time |-> NULL, opening_cash |-> ToNumeric(openingCash),
     closing_cash |-> NULL, total_sales |-> ToNumeric(0),
     transaction_count |-> 0]

\* Create new shift
StartShiftInsert(p) ==
    /\ proc[p].op = "startShift" /\ proc[p].pc = "insert_shift"
    /\ shifts' = Append(shifts,
         NewShift(Len(shifts) + 1, proc[p].input.cashierId,
                  proc[p].input.openingCash, clock))
    /\ proc' = [Finish(p, "ok") EXCEPT ![p].shift = shifts'[Len(shifts')]]
    /\ UNCHANGED <<stock_quantity, transactions, transaction_items, clock,
                   history, users>>

EndShiftBegin(p, shiftId, closingCash) ==
    /\ proc[p].pc = "idle"
    /\ proc' = [proc EXCEPT ![p] =
         Call(p, "endShift",
              [shiftId |-> shiftId, closingCash |-> closingCash],
              "select_shift")]
    /\ UNCHANGED <<stock_quantity, transactions, transaction_items, shifts,
                   clock, history, users>>

\* endShift without the check of end_time.
EndShiftSelectAnyShift(p) ==
    /\ proc[p].op = "endShift" /\ proc[p].pc = "select_shift"
    /\ LET id == proc[p].input.shiftId IN
       proc' = IF id \notin 1..Len(shifts)
               THEN Finish(p, "shift_not_found")
               ELSE [proc EXCEPT ![p].pc = "select_sales",
                                 ![p].shift = shifts[id]]
    /\ UNCHANGED <<stock_quantity, transactions, transaction_items, shifts,
                   clock, history, users>>

\* Get the shift to end
EndShiftSelect(p) ==
    /\ proc[p].op = "endShift" /\ proc[p].pc = "select_shift"
    /\ LET id == proc[p].input.shiftId IN
       proc' = IF id \notin 1..Len(shifts)
               THEN Finish(p, "shift_not_found")
               ELSE IF shifts[id].end_time # NULL
               THEN Finish(p, "already_ended")
               ELSE [proc EXCEPT ![p].pc = "select_sales",
                                 ![p].shift = shifts[id]]
    /\ UNCHANGED <<stock_quantity, transactions, transaction_items, shifts,
                   clock, history, users>>

\* The sales query without its status filter.
ShiftSalesAnyStatus(rows, cashierId, from, to) ==
    {k \in 1..Len(rows) :
        /\ rows[k].cashier_id = cashierId
        /\ from <= rows[k].created_at /\ rows[k].created_at <= to}

\* The transactions the sales query of endShift selects.
ShiftSales(rows, cashierId, from, to) ==
    {k \in 1..Len(rows) :
        /\ rows[k].cashier_id = cashierId
        /\ from <= rows[k].created_at /\ rows[k].created_at <= to
        /\ rows[k].status = "completed"}

RECURSIVE SumTotal(_, _)
SumTotal(rows, ids) ==
    IF ids = {} THEN 0
    ELSE LET k == CHOOSE x \in ids : TRUE
         IN  rows[k].total_amount + SumTotal(rows, ids \ {k})

\* Calculate total sales and transaction count for this shift period
EndShiftSelectSales(p) ==
    /\ proc[p].op = "endShift" /\ proc[p].pc = "select_sales"
    /\ LET sel == ShiftSales(transactions, proc[p].shift.cashier_id,
                             proc[p].shift.start_time, clock)
       IN  proc' = [proc EXCEPT
             ![p].pc = "update_shift",
             ![p].salesData =
                 [total_sales |-> ParseFloat(SumTotal(transactions, sel)),
                  transaction_count |-> Cardinality(sel)]]
    /\ UNCHANGED <<stock_quantity, transactions, transaction_items, shifts,
                   clock, history, users>>

\* Update shift with end time, closing cash, and calculated totals
EndShiftUpdate(p) ==
    /\ proc[p].op = "endShift" /\ proc[p].pc = "update_shift"
    /\ LET id == proc[p].input.shiftId IN
       /\ shifts' = [shifts EXCEPT
            ![id].end_time = clock,
            ![id].closing_cash = ToNumeric(proc[p].input.closingCash),
            ![id].total_sales = ToNumeric(proc[p].salesData.total_sales),
            ![id].transaction_count = proc[p].salesData.transaction_count]
       /\ proc' = [Finish(p, "ok") EXCEPT ![p].shift = shifts'[id]]
    /\ UNCHANGED <<stock_quantity, transactions, transaction_items, clock,
                   history, users>>

\* -------------------------------------------------------- transactions.ts
tax_amount == 0     \* Could be calculated based on business rules

\* (item.unit_price * item.quantity) - item.discount_amount
ItemTotal(item) == (item.unit_price * item.quantity) - item.discount_amount

RECURSIVE Subtotal(_)
Subtotal(items) ==
    IF items = <<>> THEN 0
    ELSE ItemTotal(Head(items)) + Subtotal(Tail(items))

TotalAmount(input) == Subtotal(input.items) - input.discount_amount + tax_amount

ChangeAmount(input) == input.payment_amount - TotalAmount(input)

\* `TXN-${Date.now()}-${Math.random().toString(36).substr(2, 9)}`
TransactionNumber(now, random) == [time |-> now, random |-> random]

\* Generate unique transaction number
CreateTransactionBegin(p, input, random) ==
    /\ proc[p].pc = "idle"
    /\ Len(transactions)
         + Cardinality({q \in Procs :
                          Running(q) /\ proc[q].op = "createTransaction"
                                     /\ proc[q].transaction = NoRow})
         < MaxTxns
    /\ proc' = [proc EXCEPT ![p] =
         [Call(p, "createTransaction", input,
               IF input.items = <<>> THEN "insert_transaction"
                                     ELSE "select_variant")
          EXCEPT !.transactionNumber = TransactionNumber(clock, random)]]
    /\ UNCHANGED <<stock_quantity, transactions, transaction_items, shifts,
                   clock, history, users>>

\* The validation that looks for the variant and not at its stock.
CreateTransactionSelectVariantAnyStock(p) ==
    /\ proc[p].op = "createTransaction" /\ proc[p].pc = "select_variant"
    /\ LET item == proc[p].input.items[proc[p].i] IN
       proc' =
         IF item.product_variant_id \notin VariantIds
         THEN Finish(p, "variant_not_found")
         ELSE IF proc[p].i < Len(proc[p].input.items)
         THEN [proc EXCEPT ![p].i = @ + 1]
         ELSE [proc EXCEPT ![p].i = 1, ![p].pc = "insert_transaction"]
    /\ UNCHANGED <<stock_quantity, transactions, transaction_items, shifts,
                   clock, history, users>>

\* Validate stock availability for all items: one select per item
CreateTransactionSelectVariant(p) ==
    /\ proc[p].op = "createTransaction" /\ proc[p].pc = "select_variant"
    /\ LET item == proc[p].input.items[proc[p].i] IN
       proc' =
         IF item.product_variant_id \notin VariantIds
         THEN Finish(p, "variant_not_found")
         ELSE IF stock_quantity[item.product_variant_id] < item.quantity
         THEN Finish(p, "insufficient_stock")
         ELSE IF proc[p].i < Len(proc[p].input.items)
         THEN [proc EXCEPT ![p].i = @ + 1]
         ELSE [proc EXCEPT ![p].i = 1, ![p].pc = "insert_transaction"]
    /\ UNCHANGED <<stock_quantity, transactions, transaction_items, shifts,
                   clock, history, users>>

NewTransaction(id, transactionNumber, input, now) ==
    [id |-> id,
     transaction_number |-> transactionNumber,
     customer_id |-> input.customer_id,
     cashier_id |-> input.cashier_id,
     subtotal |-> ToNumeric(Subtotal(input.items)),
     discount_amount |-> ToNumeric(input.discount_amount),
     tax_amount |-> ToNumeric(tax_amount),
     total_amount |-> ToNumeric(TotalAmount(input)),
     payment_amount |-> ToNumeric(input.payment_amount),
     change_amount |-> ToNumeric(ChangeAmount(input)),
     status |-> "completed",
     created_at |-> now]

\* The insert into a table whose transaction_number is not unique.
CreateTransactionInsertAnyNumber(p) ==
    /\ proc[p].op = "createTransaction" /\ proc[p].pc = "insert_transaction"
    /\ transactions' = Append(transactions,
         NewTransaction(Len(transactions) + 1, proc[p].transactionNumber,
                        proc[p].input, clock))
    /\ proc' = [proc EXCEPT
         ![p].transaction = transactions'[Len(transactions')],
         ![p].i = 1,
         ![p].pc = IF proc[p].input.items = <<>> THEN "update_shift"
                                                 ELSE "insert_item"]
    /\ UNCHANGED <<stock_quantity, transaction_items, shifts, clock, history, users>>

\* Create transaction; transaction_number is unique in transactionsTable, so
\* the insert of a number that is stored already throws.
CreateTransactionInsert(p) ==
    /\ proc[p].op = "createTransaction" /\ proc[p].pc = "insert_transaction"
    /\ IF \E k \in 1..Len(transactions) :
             transactions[k].transaction_number = proc[p].transactionNumber
       THEN /\ proc' = Finish(p, "duplicate_transaction_number")
            /\ UNCHANGED transactions
       ELSE /\ transactions' = Append(transactions,
                 NewTransaction(Len(transactions) + 1,
                                proc[p].transactionNumber, proc[p].input,
                                clock))
            /\ proc' = [proc EXCEPT
                 ![p].transaction = transactions'[Len(transactions')],
                 ![p].i = 1,
                 ![p].pc = IF proc[p].input.items = <<>> THEN "update_shift"
                                                         ELSE "insert_item"]
    /\ UNCHANGED <<stock_quantity, transaction_items, shifts, clock, history, users>>

NewTransactionItem(transactionId, item) ==
    [transaction_id |-> transactionId,
     product_variant_id |-> item.product_variant_id,
     quantity |-> item.quantity,
     unit_price |-> ToNumeric(item.unit_price),
     discount_amount |-> ToNumeric(item.discount_amount),
     total_price |-> ToNumeric(ItemTotal(item))]

\* Create transaction item
CreateTransactionInsertItem(p) ==
    /\ proc[p].op = "createTransaction" /\ proc[p].pc = "insert_item"
    /\ transaction_items' = Append(transaction_items,
         NewTransactionItem(proc[p].transaction.id,
                            proc[p].input.items[proc[p].i]))
    /\ proc' = Goto(p, "update_stock")
    /\ UNCHANGED <<stock_quantity, transactions, shifts, clock, history, users>>

\* The decrement as a read-modify-write: it writes back the quantity known
\* when the last call returned, less the line's quantity.
DecrementStockStale(stock, variantId, quantity) ==
    IF variantId \in DOMAIN stock
    THEN [stock EXCEPT ![variantId] = history.stock[variantId] - quantity]
    ELSE stock

\* SET stock_quantity = stock_quantity - quantity WHERE id = variant
DecrementStock(stock, variantId, quantity) ==
    IF variantId \in DOMAIN stock
    THEN [stock EXCEPT ![variantId] = @ - quantity]
    ELSE stock

\* Update product variant stock
CreateTransactionUpdateStock(p) ==
    /\ proc[p].op = "createTransaction" /\ proc[p].pc = "update_stock"
    /\ LET item == proc[p].input.items[proc[p].i] IN
       stock_quantity' =
         DecrementStock(stock_quantity, item.product_variant_id, item.quantity)
    /\ proc' = IF proc[p].i < Len(proc[p].input.items)
               THEN [proc EXCEPT ![p].i = @ + 1, ![p].pc = "insert_item"]
               ELSE Goto(p, "update_shift")
    /\ UNCHANGED <<transactions, transaction_items, shifts, clock, history, users>>

\* SET total_sales = total_sales + amount, transaction_count =
\* transaction_count + n WHERE cashier_id = cashierId AND end_time IS NULL
AddToOpenShifts(rows, cashierId, amount, n) ==
    [k \in 1..Len(rows) |->
        IF k \in OpenShiftOf(rows, cashierId)
        THEN [rows[k] EXCEPT
                !.total_sales = ToNumeric(@ + amount),
                !.transaction_count = @ + n]
        ELSE rows[k]]

\* Update shift statistics if there's an active shift for the cashier
CreateTransactionUpdateShift(p) ==
    /\ proc[p].op = "createTransaction" /\ proc[p].pc = "update_shift"
    /\ shifts' = AddToOpenShifts(shifts, proc[p].input.cashier_id,
                                 TotalAmount(proc[p].input), 1)
    /\ proc' = Finish(p, "ok")
    /\ UNCHANGED <<stock_quantity, transactions, transaction_items, clock,
                   history, users>>

RefundTransactionBegin(p, transactionId) ==
    /\ proc[p].pc = "idle"
    /\ proc' = [proc EXCEPT ![p] =
         Call(p, "refundTransaction", [transactionId |-> transactionId],
              "select_transaction")]
    /\ UNCHANGED <<stock_quantity, transactions, transaction_items, shifts,
                   clock, history, users>>

\* refundTransaction without the check of the status.
RefundTransactionSelectAnyStatus(p) ==
    /\ proc[p].op = "refundTransaction" /\ proc[p].pc = "select_transaction"
    /\ LET id == proc[p].input.transactionId IN
       proc' = IF id \notin 1..Len(transactions)
               THEN Finish(p, "transaction_not_found")
               ELSE [proc EXCEPT ![p].pc = "select_items",
                                 ![p].transaction = transactions[id]]
    /\ UNCHANGED <<stock_quantity, transactions, transaction_items, shifts,
                   clock, history, users>>

\* Get transaction details
RefundTransactionSelect(p) ==
    /\ proc[p].op = "refundTransaction" /\ proc[p].pc = "select_transaction"
    /\ LET id == proc[p].input.transactionId IN
       proc' = IF id \notin 1..Len(transactions)
               THEN Finish(p, "transaction_not_found")
               ELSE IF transactions[id].status = "refunded"
               THEN Finish(p, "already_refunded")
               ELSE [proc EXCEPT ![p].pc = "select_items",
                                 ![p].transaction = transactions[id]]
    /\ UNCHANGED <<stock_quantity, transactions, transaction_items, shifts,
                   clock, history, users>>

ItemsOf(rows, transactionId) ==
    SelectSeq(rows, LAMBDA r : r.transaction_id = transactionId)

\* Get transaction items to restore stock
RefundTransactionSelectItems(p) ==
    /\ proc[p].op = "refundTransaction" /\ proc[p].pc = "select_items"
    /\ LET items == ItemsOf(transaction_items, proc[p].input.transactionId) IN
       proc' = [proc EXCEPT
         ![p].items = items,
         ![p].i = 1,
         ![p].pc = IF items = <<>> THEN "update_status" ELSE "restore_stock"]
    /\ UNCHANGED <<stock_quantity, transactions, transaction_items, shifts,
                   clock, history, users>>

\* The restore that puts back one unit per item row.
IncrementStockByOne(stock, variantId, quantity) ==
    IF variantId \in DOMAIN stock
    THEN [stock EXCEPT ![variantId] = @ + 1]
    ELSE stock

\* SET stock_quantity = stock_quantity + quantity WHERE id = variant
IncrementStock(stock, variantId, quantity) ==
    IF variantId \in DOMAIN stock
    THEN [stock EXCEPT ![variantId] = @ + quantity]
    ELSE stock

\* The restore loop that stops after the first item.
RefundTransactionRestoreStockFirstOnly(p) ==
    /\ proc[p].op = "refundTransaction" /\ proc[p].pc = "restore_stock"
    /\ LET item == proc[p].items[proc[p].i] IN
       stock_quantity' =
         IncrementStock(stock_quantity, item.product_variant_id, item.quantity)
    /\ proc' = Goto(p, "update_status")
    /\ UNCHANGED <<transactions, transaction_items, shifts, clock, history, users>>

\* Restore stock quantities for all items
RefundTransactionRestoreStock(p) ==
    /\ proc[p].op = "refundTransaction" /\ proc[p].pc = "restore_stock"
    /\ LET item == proc[p].items[proc[p].i] IN
       stock_quantity' =
         IncrementStock(stock_quantity, item.product_variant_id, item.quantity)
    /\ proc' = IF proc[p].i < Len(proc[p].items)
               THEN [proc EXCEPT ![p].i = @ + 1]
               ELSE Goto(p, "update_status")
    /\ UNCHANGED <<transactions, transaction_items, shifts, clock, history, users>>

\* The status update that also clears the amount of the refunded sale.
RefundTransactionUpdateStatusVoids(p) ==
    /\ proc[p].op = "refundTransaction" /\ proc[p].pc = "update_status"
    /\ transactions' =
         [transactions EXCEPT ![proc[p].input.transactionId].status = "refunded",
                              ![proc[p].input.transactionId].total_amount = 0]
    /\ proc' = Goto(p, "update_shift")
    /\ UNCHANGED <<stock_quantity, transaction_items, shifts, clock, history, users>>

\* Update transaction status to refunded
RefundTransactionUpdateStatus(p) ==
    /\ proc[p].op = "refundTransaction" /\ proc[p].pc = "update_status"
    /\ transactions' =
         [transactions EXCEPT ![proc[p].input.transactionId].status = "refunded"]
    /\ proc' = Goto(p, "update_shift")
    /\ UNCHANGED <<stock_quantity, transaction_items, shifts, clock, history, users>>

\* The refund that adds the amount and the sale to the counters once more.
RefundTransactionUpdateShiftAdds(p) ==
    /\ proc[p].op = "refundTransaction" /\ proc[p].pc = "update_shift"
    /\ shifts' = AddToOpenShifts(shifts, proc[p].transaction.cashier_id,
                                 ParseFloat(proc[p].transaction.total_amount),
                                 1)
    /\ proc' = Finish(p, "ok")
    /\ UNCHANGED <<stock_quantity, transactions, transaction_items, clock,
                   history, users>>

\* Update shift statistics if there's an active shift for the cashier
RefundTransactionUpdateShift(p) ==
    /\ proc[p].op = "refundTransaction" /\ proc[p].pc = "update_shift"
    /\ shifts' = AddToOpenShifts(shifts, proc[p].transaction.cashier_id,
                                 -ParseFloat(proc[p].transaction.total_amount),
                                 -1)
    /\ proc' = Finish(p, "ok")
    /\ UNCHANGED <<stock_quantity, transactions, transaction_items, clock,
                   history, users>>

\* ------------------------------------------------------------ products.ts
\* A row of productVariantsTable as a handler returns it.
VariantRow(stock, id) ==
    [id |-> id, stock_quantity |-> stock[id],
     low_stock_threshold |-> low_stock_threshold[id]]

\* The low-stock query with a strict comparison.
LowStockBelow(stock) ==
    {VariantRow(stock, id) : id \in {v \in VariantIds :
                                       stock[v] < low_stock_threshold[v]}}

\* The variants where stock_quantity <= low_stock_threshold.
LowStock(stock) ==
    {VariantRow(stock, id) : id \in {v \in VariantIds :
                                       stock[v] <= low_stock_threshold[v]}}

GetLowStockVariantsBegin(p) ==
    /\ proc[p].pc = "idle"
    /\ proc' = [proc EXCEPT ![p] =
         Call(p, "getLowStockVariants", NoRow, "select_low_stock")]
    /\ UNCHANGED <<stock_quantity, transactions, transaction_items, shifts,
                   clock, history, users>>

\* Fetch variants where stock_quantity <= low_stock_threshold.
GetLowStockVariantsSelect(p) ==
    /\ proc[p].op = "getLowStockVariants" /\ proc[p].pc = "select_low_stock"
    /\ proc' = [Finish(p, "ok") EXCEPT ![p].rows = LowStock(stock_quantity)]
    /\ UNCHANGED <<stock_quantity, transactions, transaction_items, shifts,
                   clock, history, users>>

UpdateStockBegin(p, variantId, quantity) ==
    /\ proc[p].pc = "idle"
    /\ proc' = [proc EXCEPT ![p] =
         Call(p, "updateStock",
              [variantId |-> variantId, quantity |-> quantity],
              "update_variant")]
    /\ UNCHANGED <<stock_quantity, transactions, transaction_items, shifts,
                   clock, history, users>>

\* updateStock without the check of the resulting quantity.
UpdateStockApplyUnchecked(p) ==
    /\ proc[p].op = "updateStock" /\ proc[p].pc = "update_variant"
    /\ LET id == proc[p].input.variantId
           q  == proc[p].input.quantity
       IN  IF id \notin VariantIds
           THEN /\ proc' = Finish(p, "variant_not_found")
                /\ UNCHANGED stock_quantity
           ELSE /\ stock_quantity' = [stock_quantity EXCEPT ![id] = @ + q]
                /\ proc' = [Finish(p, "ok") EXCEPT
                              ![p].rows = {VariantRow(stock_quantity', id)}]
    /\ UNCHANGED <<transactions, transaction_items, shifts, clock, history, users>>

\* Adjust stock_quantity by the signed quantity, never below zero, and
\* return the updated variant.
UpdateStockApply(p) ==
    /\ proc[p].op = "updateStock" /\ proc[p].pc = "update_variant"
    /\ LET id == proc[p].input.variantId
           q  == proc[p].input.quantity
       IN  IF id \notin VariantIds
           THEN /\ proc' = Finish(p, "variant_not_found")
                /\ UNCHANGED stock_quantity
           ELSE IF stock_quantity[id] + q < 0
           THEN /\ proc' = Finish(p, "insufficient_stock")
                /\ UNCHANGED stock_quantity
           ELSE /\ stock_quantity' = [stock_quantity EXCEPT ![id] = @ + q]
                /\ proc' = [Finish(p, "ok") EXCEPT
                              ![p].rows = {VariantRow(stock_quantity', id)}]
    /\ UNCHANGED <<transactions, transaction_items, shifts, clock, history, users>>

\* ------------------------------------------------- seed.ts, users.ts, auth
\* The users seedInitialUsers creates, in its order.
SeedUsers ==
    <<[username |-> "admin", password |-> "admin123", role |-> "admin"],
      [username |-> "manager", password |-> "manager123", role |-> "manager"],
      [username |-> "cashier", password |-> "cashier123", role |-> "cashier"]>>

UsersNamed(rows, username) ==
    {k \in 1..Len(rows) : rows[k].username = username}

SeedInitialUsersBegin(p) ==
    /\ proc[p].pc = "idle"
    /\ proc' = [proc EXCEPT ![p] =
         Call(p, "seedInitialUsers", NoRow, "select_user")]
    /\ UNCHANGED <<stock_quantity, transactions, transaction_items, shifts,
                   clock, history, users>>

\* The seeding goes on with the next user, or is complete.
SeedNext(p) ==
    IF proc[p].i < Len(SeedUsers)
    THEN [proc EXCEPT ![p].i = @ + 1, ![p].pc = "select_user"]
    ELSE Finish(p, "ok")

\* adminExists / managerExists / cashierExists
SeedInitialUsersSelect(p) ==
    /\ proc[p].op = "seedInitialUsers" /\ proc[p].pc = "select_user"
    /\ proc' = IF UsersNamed(users, SeedUsers[proc[p].i].username) = {}
               THEN Goto(p, "insert_user")
               ELSE SeedNext(p)
    /\ UNCHANGED <<stock_quantity, transactions, transaction_items, shifts,
                   clock, history, users>>

\* createUser: hash the password and insert the user record; username is
\* unique in usersTable.
CreateUserInsert(p) ==
    /\ proc[p].op = "seedInitialUsers" /\ proc[p].pc = "insert_user"
    /\ LET u == SeedUsers[proc[p].i] IN
       IF UsersNamed(users, u.username) # {}
       THEN /\ proc' = Finish(p, "duplicate_username")
            /\ UNCHANGED users
       ELSE /\ users' = Append(users,
                 User(Len(users) + 1, u.username, u.password, u.role))
            /\ proc' = SeedNext(p)
    /\ UNCHANGED <<stock_quantity, transactions, transaction_items, shifts,
                   clock, history>>

LoginBegin(p, input) ==
    /\ proc[p].pc = "idle"
    /\ proc' = [proc EXCEPT ![p] = Call(p, "login", input, "select_user")]
    /\ UNCHANGED <<stock_quantity, transactions, transaction_items, shifts,
                   clock, history, users>>

\* Find user by username, check that it is active, compare the password,
\* return the user (and a token, which the model leaves out).
LoginSelect(p) ==
    /\ proc[p].op = "login" /\ proc[p].pc = "select_user"
    /\ LET found == UsersNamed(users, proc[p].input.username) IN
       proc' =
         IF found = {}
         THEN Finish(p, "invalid_username_or_password")
         ELSE LET user == users[CHOOSE k \in found : TRUE] IN
              IF ~user.is_active
              THEN Finish(p, "account_deactivated")
              ELSE IF proc[p].input.password # "password"
              THEN Finish(p, "invalid_username_or_password")
              ELSE [Finish(p, "ok") EXCEPT ![p].rows = {user}]
    /\ UNCHANGED <<stock_quantity, transactions, transaction_items, shifts,
                   clock, history, users>>

\* ------------------------------------------------------------------ inputs
Item(variantId, quantity, unitPrice, discount) ==
    [product_variant_id |-> variantId, quantity |-> quantity,
     unit_price |-> unitPrice, discount_amount |-> discount]

Sale(cashierId, items, payment, discount) ==
    [customer_id |-> NULL, cashier_id |-> cashierId, items |-> items,
     payment_amount |-> payment, discount_amount |-> discount]

MissingVariant == 3     \* an id no variant has
MissingUser == 3        \* an id no user has

\* Sales of the stock model, in whole cents: variant 1 at 0.02 and variant
\* 2 at 0.01; one line, the same variant on two lines, two variants, a line
\* for more than the stock, a line for a variant that does not exist.
SaleItems ==
    {<<Item(1, 1, 2 * Sub, 0)>>,
     <<Item(1, 2, 2 * Sub, 0), Item(1, 1, 2 * Sub, 0)>>,
     <<Item(1, 1, 2 * Sub, 0), Item(2, 1, Sub, 0)>>,
     <<Item(2, 1, Sub, 0), Item(2, 2, Sub, 0)>>,
     <<Item(1, 1, 2 * Sub, 0), Item(MissingVariant, 1, Sub, 0)>>}

SaleInputs == {Sale(1, l, 4 * Sub, 0) : l \in SaleItems}

\* Sales at the till: either cashier sells one unit of either variant.
TillInputs ==
    {Sale(c, <<Item(1, 1, 2 * Sub, 0)>>, 4 * Sub, 0) : c \in UserIds}
    \cup {Sale(c, <<Item(2, 1, Sub, 0)>>, 4 * Sub, 0) : c \in UserIds}

StockDeltas == {-1, 1}
OpeningCash == {10 * Sub}
ClosingCash == {12 * Sub}

\* ---------------------------------------------------------- specifications
StartShiftStep(p) ==
    \/ StartShiftSelectCashier(p)
    \/ StartShiftSelectActive(p)
    \/ StartShiftInsert(p)

EndShiftStep(p) ==
    \/ EndShiftSelect(p)
    \/ EndShiftSelectSales(p)
    \/ EndShiftUpdate(p)

CreateTransactionStep(p) ==
    \/ CreateTransactionSelectVariant(p)
    \/ CreateTransactionInsert(p)
    \/ CreateTransactionInsertItem(p)
    \/ CreateTransactionUpdateStock(p)
    \/ CreateTransactionUpdateShift(p)

RefundTransactionStep(p) ==
    \/ RefundTransactionSelect(p)
    \/ RefundTransactionSelectItems(p)
    \/ RefundTransactionRestoreStock(p)
    \/ RefundTransactionUpdateStatus(p)
    \/ RefundTransactionUpdateShift(p)

StartShiftCall(p) ==
    \E c \in UserIds \cup {MissingUser}, cash \in OpeningCash :
        StartShiftBegin(p, c, cash)

EndShiftCall(p) ==
    \E id \in 1..(MaxShifts + 1), cash \in ClosingCash :
        EndShiftBegin(p, id, cash)

\* The random strings of the stored transaction numbers and of the calls
\* under way.
UsedRandoms ==
    {transactions[k].transaction_number.random : k \in 1..Len(transactions)}
    \cup {proc[q].transactionNumber.random :
             q \in {r \in Procs : proc[r].op = "createTransaction"}}

\* Math.random() draws a string that no other transaction number holds, as
\* it does but for a chance of 36^-9.
FreshRandom == CHOOSE r \in 1..(Cardinality(UsedRandoms) + 1) : r \notin UsedRandoms

CreateTransactionCall(p, inputs) ==
    \E input \in inputs : CreateTransactionBegin(p, input, FreshRandom)

RefundTransactionCall(p) ==
    \E id \in 1..(MaxTxns + 1) : RefundTransactionBegin(p, id)

UpdateStockCall(p) ==
    \E v \in VariantIds \cup {MissingVariant}, q \in StockDeltas :
        /\ (v \in VariantIds /\ q > 0) => stock_quantity[v] + q <= MaxStock
        /\ UpdateStockBegin(p, v, q)

\* The till: shifts, sales and refunds, one call at a time, as time passes.
Next ==
    \/ Tick
    \/ Serial /\ StartShiftCall(Server)
    \/ Serial /\ EndShiftCall(Server)
    \/ Serial /\ CreateTransactionCall(Server, TillInputs)
    \/ Serial /\ RefundTransactionCall(Server)
    \/ StartShiftStep(Server)
    \/ EndShiftStep(Server)
    \/ CreateTransactionStep(Server)
    \/ RefundTransactionStep(Server)
    \/ Return(Server)

Spec == Init /\ [][Next]_vars

\* Sales, refunds, manual stock updates and low-stock queries, one call at
\* a time.
NextStock ==
    \/ Serial /\ CreateTransactionCall(Server, SaleInputs)
    \/ Serial /\ RefundTransactionCall(Server)
    \/ Serial /\ UpdateStockCall(Server)
    \/ Serial /\ GetLowStockVariantsBegin(Server)
    \/ GetLowStockVariantsSelect(Server)
    \/ CreateTransactionStep(Server)
    \/ RefundTransactionStep(Server)
    \/ UpdateStockApply(Server)
    \/ Return(Server)

SpecStock == Init /\ [][NextStock]_vars

\* Shifts opened and closed, one call at a time, as time passes.
NextShifts ==
    \/ Tick
    \/ Serial /\ StartShiftCall(Server)
    \/ Serial /\ EndShiftCall(Server)
    \/ StartShiftStep(Server)
    \/ EndShiftStep(Server)
    \/ Return(Server)

SpecShifts == Init /\ [][NextShifts]_vars

\* Concurrent requests to open and to close shifts.
NextRace ==
    \E p \in Clients :
        \/ StartShiftCall(p)
        \/ EndShiftCall(p)
        \/ StartShiftStep(p)
        \/ EndShiftStep(p)
        \/ Return(p)

SpecRace == Init /\ [][NextRace]_vars

\* Concurrent sales and refunds while cashier 1 has a shift open: one line
\* per sale, so that a sale alone never asks for more than it checked.
ConcSaleInputs ==
    {Sale(1, <<Item(1, q, 2 * Sub, 0)>>, 4 * Sub, 0) : q \in 1..2}

InitOpenShift ==
    /\ stock_quantity = InitStock
    /\ transactions = <<>>
    /\ transaction_items = <<>>
    /\ shifts = <<NewShift(1, 1, 10 * Sub, 0)>>
    /\ clock = 0
    /\ proc = [p \in Procs |-> IdleProc]
    /\ history = NoHistory
    /\ users = InitUsers

NextConc ==
    \E p \in Clients :
        \/ CreateTransactionCall(p, ConcSaleInputs)
        \/ \E id \in 1..MaxTxns : RefundTransactionBegin(p, id)
        \/ CreateTransactionStep(p)
        \/ RefundTransactionStep(p)
        \/ Return(p)

SpecConc == InitOpenShift /\ [][NextConc]_vars

\* Sales and refunds while cashier 1 has a shift open and cashier 2 has
\* none, one call at a time.
NextRefund ==
    \/ Serial /\ CreateTransactionCall(Server, SaleInputs \cup TillInputs)
    \/ Serial /\ RefundTransactionCall(Server)
    \/ CreateTransactionStep(Server)
    \/ RefundTransactionStep(Server)
    \/ Return(Server)

SpecRefund == InitOpenShift /\ [][NextRefund]_vars

\* A write statement fails: the storage throws and the handler rethrows.
WriteSteps ==
    {"insert_shift", "insert_transaction", "insert_item", "update_stock",
     "update_shift", "restore_stock", "update_status", "update_variant"}

StorageFailure(p) ==
    /\ proc[p].pc \in WriteSteps
    /\ proc' = Finish(p, "storage_error")
    /\ UNCHANGED <<stock_quantity, transactions, transaction_items, shifts,
                   clock, history, users>>

\* Shifts and sales, one call at a time, over a storage that can fail.
NextFault ==
    \/ Serial /\ StartShiftCall(Server)
    \/ Serial /\ CreateTransactionCall(Server, SaleInputs)
    \/ StartShiftStep(Server)
    \/ CreateTransactionStep(Server)
    \/ StorageFailure(Server)
    \/ Return(Server)

SpecFault == Init /\ [][NextFault]_vars

\* One sale whose amounts need not be whole cents.
MoneyLines ==
    {Item(1, q, price, d) : q \in 1..2, price \in 1..(Sub + 1), d \in 0..Sub}

MoneyItems ==
    {<<>>} \cup {<<a>> : a \in MoneyLines}
           \cup {<<a, b>> : a \in MoneyLines, b \in MoneyLines}

MoneyInputs ==
    {Sale(1, l, pay, d) :
        l \in MoneyItems, pay \in 1..(2 * Sub), d \in 0..Sub}

NextMoney ==
    \/ /\ Serial
       /\ transactions = <<>>
       /\ CreateTransactionCall(Server, MoneyInputs)
    \/ CreateTransactionStep(Server)
    \/ Return(Server)

SpecMoney == Init /\ [][NextMoney]_vars

\* Sales of one unit of variant 1 by either cashier, at a price and with a
\* discount that need not be whole cents; the discount may exceed the price.
ShiftMoneyInputs ==
    {Sale(c, <<Item(1, 1, price, 0)>>, 4 * Sub, d) :
        c \in UserIds, price \in 1..(Sub + 1), d \in 0..(Sub + 1)}

\* Such sales and their refunds while cashier 1 has a shift open and cashier
\* 2 has none, one call at a time.
NextShiftMoney ==
    \/ Serial /\ CreateTransactionCall(Server, ShiftMoneyInputs)
    \/ Serial /\ RefundTransactionCall(Server)
    \/ CreateTransactionStep(Server)
    \/ RefundTransactionStep(Server)
    \/ Return(Server)

SpecShiftMoney == InitOpenShift /\ [][NextShiftMoney]_vars

\* Concurrent requests to close the open shift of cashier 1 and to sell,
\* as time passes.
NextClose ==
    \/ Tick
    \/ \E p \in Clients :
          \/ EndShiftCall(p)
          \/ CreateTransactionCall(p, ConcSaleInputs)
          \/ EndShiftStep(p)
          \/ CreateTransactionStep(p)
          \/ Return(p)

SpecClose == InitOpenShift /\ [][NextClose]_vars

\* Concurrent sales whose random strings may coincide, as time passes.
NextNumber ==
    \/ Tick
    \/ \E p \in Clients :
          \/ \E input \in ConcSaleInputs, random \in 1..MaxRandom :
                CreateTransactionBegin(p, input, random)
          \/ CreateTransactionStep(p)
          \/ Return(p)

SpecNumber == Init /\ [][NextNumber]_vars

\* Shifts opened with an amount of cash that need not be whole cents, and
\* closed, one call at a time.
OpeningCashAny == (10 * Sub)..(11 * Sub)

NextOpening ==
    \/ Tick
    \/ /\ Serial
       /\ \E c \in UserIds \cup {MissingUser}, cash \in OpeningCashAny :
             StartShiftBegin(Server, c, cash)
    \/ Serial /\ EndShiftCall(Server)
    \/ StartShiftStep(Server)
    \/ EndShiftStep(Server)
    \/ Return(Server)

SpecOpening == Init /\ [][NextOpening]_vars

\* Seeding and logins, one call at a time.
LoginInputs ==
    {[username |-> u, password |-> w] :
        u \in {"admin", "manager", "cashier", "kasir1", "nobody"},
        w \in {"admin123", "manager123", "cashier123", "rahasia1",
               "password", "wrongpassword"}}

NextLogin ==
    \/ Serial /\ SeedInitialUsersBegin(Server)
    \/ Serial /\ \E input \in LoginInputs : LoginBegin(Server, input)
    \/ SeedInitialUsersSelect(Server)
    \/ CreateUserInsert(Server)
    \/ LoginSelect(Server)
    \/ Return(Server)

SpecLogin == Init /\ [][NextLogin]_vars

\* ------------------------------------------------------------------ claims
Done(p, op) == proc[p].pc = "done" /\ proc[p].op = op
Returned(p, op) == Done(p, op) /\ proc[p].res = "ok"
Quiescent == \A p \in Procs : proc[p].pc = "idle"

\* The shifts of a cashier that have no end_time, among rows.
OpenShifts(rows, c) ==
    {k \in DOMAIN rows : rows[k].cashier_id = c /\ rows[k].end_time = NULL}

\* C1: after any sequence of createTransaction, refundTransaction and
\* updateStock calls, each run to completion, every variant's stock_quantity
\* is >= 0.
C1_StockNonNegative ==
    Quiescent => \A v \in VariantIds : stock_quantity[v] >= 0

\* C2: a createTransaction call that fails in a write step leaves nothing
\* behind: no transaction row, no item row, no stock decrement and no shift
\* counter change.
C2_CreateTransactionAllOrNothing ==
    \A p \in Procs :
        (Done(p, "createTransaction") /\ proc[p].res = "storage_error")
            => DB = proc[p].snap

\* C3: with startShift and endShift run one at a time, each cashier has at
\* most one shift with end_time = null, and startShift for a cashier with an
\* open shift fails with the already-active error and creates no shift row.
C3_ShiftExclusivity ==
    /\ \A c \in UserIds : Cardinality(OpenShifts(shifts, c)) <= 1
    /\ \A p \in Procs :
          (Done(p, "startShift")
             /\ OpenShifts(proc[p].snap.shifts, proc[p].input.cashierId) # {})
          => (proc[p].res = "already_active" /\ shifts = proc[p].snap.shifts)

C3_Witness ==
    \E p \in Procs :
        /\ Done(p, "startShift")
        /\ OpenShifts(proc[p].snap.shifts, proc[p].input.cashierId) # {}
        /\ proc[p].res = "already_active"

\* C4: concurrent startShift requests for one cashier never leave two
\* shifts with end_time = null for that cashier.
C4_ConcurrentStartShift ==
    \A j \in DOMAIN shifts, k \in DOMAIN shifts :
        (shifts[j].cashier_id = shifts[k].cashier_id
           /\ shifts[j].end_time = NULL /\ shifts[k].end_time = NULL)
        => j = k

\* C5: when two createTransaction requests for one variant both pass the
\* stock check before either decrements, stock_quantity still never becomes
\* negative.
C5_ConcurrentSalesStock ==
    \A v \in VariantIds : ~(stock_quantity[v] < 0)

C7_ArithmeticInvariant ==
    \A k \in DOMAIN transactions :
        /\ transactions[k].total_amount =
             transactions[k].subtotal - transactions[k].discount_amount
               + transactions[k].tax_amount
        /\ transactions[k].change_amount =
             transactions[k].payment_amount - transactions[k].total_amount

\* C8: refundTransaction on a transaction that is already 'refunded' fails
\* with the already-refunded error and changes no stock_quantity, no shift
\* counter and no transaction field.
C8_RefundTwiceRejected ==
    \A p \in Procs :
        (/\ Done(p, "refundTransaction")
         /\ proc[p].input.transactionId \in DOMAIN proc[p].snap.transactions
         /\ proc[p].snap.transactions[proc[p].input.transactionId].status
              = "refunded")
        => (proc[p].res = "already_refunded" /\ DB = proc[p].snap)

C8_Witness ==
    \E p \in Procs :
        /\ Done(p, "refundTransaction")
        /\ proc[p].input.transactionId \in DOMAIN proc[p].snap.transactions
        /\ proc[p].snap.transactions[proc[p].input.transactionId].status
             = "refunded"
        /\ proc[p].res = "already_refunded"

\* The quantity of variant v on the stored items of transaction t.
RECURSIVE ItemQuantity(_, _, _)
ItemQuantity(rows, t, v) ==
    IF rows = <<>> THEN 0
    ELSE (IF Head(rows).transaction_id = t /\ Head(rows).product_variant_id = v
          THEN Head(rows).quantity ELSE 0)
         + ItemQuantity(Tail(rows), t, v)

\* C9: a successful refundTransaction(T) adds to each variant's
\* stock_quantity exactly the quantities of T's items for that variant (and
\* nothing to the other variants), and a sale followed by its refund returns
\* every stock_quantity to its value before the sale.
C9_RefundRestoresStock ==
    \A p \in Procs :
        Returned(p, "refundTransaction") =>
            LET t == proc[p].input.transactionId IN
            /\ \A v \in VariantIds :
                  stock_quantity[v] =
                    proc[p].snap.stock[v] + ItemQuantity(transaction_items, t, v)
            /\ history.lastSale = t => stock_quantity = history.stockBefore

\* The refund of the sale just made, which sold one variant and not the
\* other.
C9_Witness ==
    \E p \in Procs :
        /\ Returned(p, "refundTransaction")
        /\ history.lastSale = proc[p].input.transactionId
        /\ \E v \in VariantIds, w \in VariantIds :
              /\ ItemQuantity(transaction_items, history.lastSale, v) > 0
              /\ ItemQuantity(transaction_items, history.lastSale, w) = 0

\* The sum of total_amount over the transactions with ids in S.
RECURSIVE TotalOf(_)
TotalOf(S) ==
    IF S = {} THEN 0
    ELSE LET k == CHOOSE x \in S : TRUE
         IN  transactions[k].total_amount + TotalOf(S \ {k})

\* The completed transactions of the cashier of shift sh made from its
\* start_time to its end_time.
CompletedInShift(sh) ==
    {k \in DOMAIN transactions :
        /\ transactions[k].status = "completed"
        /\ transactions[k].cashier_id = sh.cashier_id
        /\ transactions[k].created_at >= sh.start_time
        /\ transactions[k].created_at <= sh.end_time}

\* C10: a successful endShift sets total_sales and transaction_count to the
\* sum of total_amount and the number of the completed transactions of the
\* shift's cashier created from start_time to the time of the call, whatever
\* the counters held before.
C10_EndShiftRecomputes ==
    \A p \in Procs :
        Returned(p, "endShift") =>
            LET sh == shifts[proc[p].input.shiftId] IN
            /\ sh.total_sales = TotalOf(CompletedInShift(sh))
            /\ sh.transaction_count = Cardinality(CompletedInShift(sh))

\* endShift replaced counters that held other values, with a refunded sale
\* of the cashier in the period.
C10_Witness ==
    \E p \in Procs :
        /\ Returned(p, "endShift")
        /\ LET id == proc[p].input.shiftId IN
           /\ proc[p].snap.shifts[id].total_sales # shifts[id].total_sales
           /\ proc[p].snap.shifts[id].transaction_count
                # shifts[id].transaction_count
           /\ shifts[id].transaction_count > 0
           /\ \E k \in DOMAIN transactions :
                 /\ transactions[k].status = "refunded"
                 /\ transactions[k].cashier_id = shifts[id].cashier_id

\* The variants sold on some stored item row.
Sold == {r.product_variant_id : r \in {transaction_items[k] :
                                         k \in DOMAIN transaction_items}}

Unavailable(items, stock) ==
    {k \in DOMAIN items :
        \/ items[k].product_variant_id \notin VariantIds
        \/ items[k].quantity > stock[items[k].product_variant_id]}

\* C13: a createTransaction whose input has an item for a variant that does
\* not exist, or for more than the variant's stock_quantity, fails and
\* leaves the stored state as it was: no transaction row, no item row, no
\* stock change, no shift-counter change, also for the items before it.
C13_RejectedSaleWritesNothing ==
    \A p \in Procs :
        (/\ Done(p, "createTransaction")
         /\ Unavailable(proc[p].input.items, proc[p].snap.stock) # {})
        => /\ proc[p].res \in {"variant_not_found", "insufficient_stock"}
           /\ DB = proc[p].snap

\* A sale refused for its second line, after a first line that was in stock,
\* by a cashier with an open shift.
C13_Witness ==
    \E p \in Procs :
        /\ Done(p, "createTransaction")
        /\ Unavailable(proc[p].input.items, proc[p].snap.stock) = {2}
        /\ proc[p].res = "insufficient_stock"
        /\ OpenShifts(shifts, proc[p].input.cashier_id) # {}

\* The shift rows before, with amount and n added to the counters of the
\* shifts that cashier c had open, and every other row as it was.
CountersAdded(before, c, amount, n) ==
    [k \in DOMAIN before |->
        IF before[k].cashier_id = c /\ before[k].end_time = NULL
        THEN [before[k] EXCEPT !.total_sales = @ + amount,
                               !.transaction_count = @ + n]
        ELSE before[k]]

\* C14: a successful createTransaction adds exactly the transaction's
\* total_amount to total_sales and 1 to transaction_count of the open shift
\* of its cashier; without an open shift it succeeds and changes no shift
\* row; the shifts of other cashiers and the closed shifts are unchanged.
C14_SaleUpdatesOpenShift ==
    \A p \in Procs :
        Returned(p, "createTransaction") =>
            shifts = CountersAdded(proc[p].snap.shifts,
                                   proc[p].input.cashier_id,
                                   proc[p].transaction.total_amount, 1)

\* C15: a successful refundTransaction(T) subtracts T's total_amount from
\* total_sales and 1 from transaction_count of the shift T's cashier has
\* open, and changes no shift when that cashier has none.
C15_RefundUpdatesOpenShift ==
    \A p \in Procs :
        Returned(p, "refundTransaction") =>
            LET t == proc[p].snap.transactions[proc[p].input.transactionId]
            IN  shifts = CountersAdded(proc[p].snap.shifts, t.cashier_id,
                                       -t.total_amount, -1)

\* The refund of a sale with a total other than 0 whose cashier has a shift
\* open, next to a sale of the cashier without one.
C15_Witness ==
    \E p \in Procs :
        /\ Returned(p, "refundTransaction")
        /\ LET t == proc[p].snap.transactions[proc[p].input.transactionId]
           IN  /\ t.total_amount # 0
               /\ OpenShifts(proc[p].snap.shifts, t.cashier_id) # {}
        /\ \E k \in DOMAIN transactions :
              OpenShifts(shifts, transactions[k].cashier_id) = {}

\* C16: every stored transaction with status 'completed' has payment_amount
\* >= total_amount, that is change_amount >= 0, whatever input
\* createTransaction accepted.
C16_PaymentCoversTotal ==
    \A k \in DOMAIN transactions :
        transactions[k].status = "completed" =>
            /\ transactions[k].payment_amount >= transactions[k].total_amount
            /\ transactions[k].change_amount >= 0

\* C17: endShift on a shift id that does not exist fails with not-found and
\* endShift on a shift whose end_time is set fails with the already-ended
\* error; in both cases every shift row keeps its values.
C17_EndShiftRejections ==
    \A p \in Procs :
        Done(p, "endShift") =>
            LET id == proc[p].input.shiftId
                before == proc[p].snap.shifts
            IN  /\ id \notin DOMAIN before =>
                     (proc[p].res = "shift_not_found" /\ shifts = before)
                /\ (id \in DOMAIN before /\ before[id].end_time # NULL) =>
                     (proc[p].res = "already_ended" /\ shifts = before)

\* endShift was refused on a shift closed earlier, at a later time.
C17_Witness ==
    \E p \in Procs :
        /\ Done(p, "endShift")
        /\ proc[p].input.shiftId \in DOMAIN proc[p].snap.shifts
        /\ proc[p].snap.shifts[proc[p].input.shiftId].end_time # NULL
        /\ proc[p].snap.shifts[proc[p].input.shiftId].end_time < clock
        /\ proc[p].res = "already_ended"

\* C18: a shift is closed exactly once.  Once its end_time is set, no step
\* of any operation, a concurrent second endShift included, changes its
\* end_time, closing_cash, total_sales or transaction_count.
C18_ClosedOnce ==
    [][\A k \in DOMAIN shifts :
          shifts[k].end_time # NULL =>
              /\ shifts'[k].end_time = shifts[k].end_time
              /\ shifts'[k].closing_cash = shifts[k].closing_cash
              /\ shifts'[k].total_sales = shifts[k].total_sales
              /\ shifts'[k].transaction_count = shifts[k].transaction_count]_vars

\* C19: no two stored transactions share a transaction_number, whatever the
\* number of createTransaction calls and also for calls of one millisecond.
C19_TransactionNumberUnique ==
    \A j \in DOMAIN transactions, k \in DOMAIN transactions :
        transactions[j].transaction_number = transactions[k].transaction_number
            => j = k

\* A sale drew the transaction number of a stored sale of the same
\* millisecond and was refused, next to two stored sales of one millisecond.
C19_Witness ==
    /\ \E p \in Procs :
          /\ Done(p, "createTransaction")
          /\ proc[p].res = "duplicate_transaction_number"
          /\ \E k \in DOMAIN transactions :
                transactions[k].transaction_number = proc[p].transactionNumber
    /\ \E j \in DOMAIN transactions, k \in DOMAIN transactions :
          /\ j # k
          /\ transactions[j].transaction_number.time
               = transactions[k].transaction_number.time

\* The stored item rows of transaction t, in insertion order.
StoredItems(t) ==
    SelectSeq(transaction_items, LAMBDA r : r.transaction_id = t)

RECURSIVE SumTotalPrice(_)
SumTotalPrice(rows) ==
    IF rows = <<>> THEN 0
    ELSE Head(rows).total_price + SumTotalPrice(Tail(rows))

\* C20: createTransaction stores exactly one item row per input line, each
\* with total_price = unit_price * quantity - discount_amount, and a
\* subtotal equal to the sum of the total_price of the stored items.
C20_ItemRows ==
    \A p \in Procs :
        Returned(p, "createTransaction") =>
            LET rows == StoredItems(proc[p].transaction.id)
                lines == proc[p].input.items
            IN  /\ Len(rows) = Len(lines)
                /\ \A k \in DOMAIN rows :
                      /\ rows[k].product_variant_id = lines[k].product_variant_id
                      /\ rows[k].quantity = lines[k].quantity
                      /\ rows[k].total_price =
                            rows[k].unit_price * rows[k].quantity
                              - rows[k].discount_amount
                /\ transactions[proc[p].transaction.id].subtotal
                     = SumTotalPrice(rows)

\* C21: startShift for an unknown cashier fails with the cashier-not-found
\* error and creates no shift; a successful startShift creates exactly one
\* new shift with end_time = null, closing_cash = null, total_sales = 0,
\* transaction_count = 0 and the given opening_cash, and changes no existing
\* shift.
C21_StartShiftCreatesOne ==
    \A p \in Procs :
        Done(p, "startShift") =>
            LET before == proc[p].snap.shifts IN
            /\ proc[p].input.cashierId \notin UserIds =>
                  (proc[p].res = "cashier_not_found" /\ shifts = before)
            /\ proc[p].res = "ok" =>
                  /\ Len(shifts) = Len(before) + 1
                  /\ \A k \in DOMAIN before : shifts[k] = before[k]
                  /\ LET new == shifts[Len(shifts)] IN
                     /\ new.cashier_id = proc[p].input.cashierId
                     /\ new.end_time = NULL
                     /\ new.closing_cash = NULL
                     /\ new.total_sales = 0
                     /\ new.transaction_count = 0
                     /\ new.opening_cash = proc[p].input.openingCash

C23_NonEmptyItems ==
    /\ \A p \in Procs :
          (Done(p, "createTransaction") /\ proc[p].input.items = <<>>)
          => (proc[p].res # "ok"
                /\ transactions = proc[p].snap.transactions)
    /\ Quiescent =>
          \A k \in DOMAIN transactions :
             \E j \in DOMAIN transaction_items :
                transaction_items[j].transaction_id = transactions[k].id

\* The credentials and roles of the seeded users.
SeededLogins ==
    {<<"admin", "admin123", "admin">>,
     <<"manager", "manager123", "manager">>,
     <<"cashier", "cashier123", "cashier">>}

\* seedInitialUsers has stored the user of credentials c.
Seeded(c) ==
    \E k \in DOMAIN users :
        /\ users[k].username = c[1]
        /\ users[k].password_hash.hash_of = c[2]
        /\ users[k].role = c[3]

\* C24: after seedInitialUsers, login succeeds for each seeded user with
\* the password it was seeded with and returns that user's role, and login
\* with any other password for those users fails with 'Invalid username or
\* password'.
C24_SeededLogin ==
    \A p \in Procs : \A c \in SeededLogins :
        (Done(p, "login") /\ Seeded(c) /\ proc[p].input.username = c[1])
        => IF proc[p].input.password = c[2]
           THEN /\ proc[p].res = "ok"
                /\ \A r \in proc[p].rows : r.role = c[3]
                /\ proc[p].rows # {}
           ELSE proc[p].res = "invalid_username_or_password"

\* The quantity of variant v over the lines of an input.
RECURSIVE InputQuantity(_, _)
InputQuantity(lines, v) ==
    IF lines = <<>> THEN 0
    ELSE (IF Head(lines).product_variant_id = v THEN Head(lines).quantity
          ELSE 0)
         + InputQuantity(Tail(lines), v)

\* C25: when an input lists a variant on two or more lines, the stock check
\* is against the total: the call is rejected with insufficient stock when
\* the lines' quantities together exceed the variant's stock_quantity, so an
\* accepted sale never takes a variant's stock below zero.
C25_StockCheckAgainstTotal ==
    \A p \in Procs :
        Done(p, "createTransaction") =>
            LET lines == proc[p].input.items
                before == proc[p].snap.stock
            IN  /\ (/\ \A k \in DOMAIN lines :
                          lines[k].product_variant_id \in VariantIds
                    /\ \E v \in VariantIds : InputQuantity(lines, v) > before[v])
                   => proc[p].res = "insufficient_stock"
                /\ proc[p].res = "ok" =>
                      \A v \in VariantIds :
                         before[v] >= 0 => stock_quantity[v] >= 0

\* C26: after any sequence of startShift, endShift, createTransaction and
\* refundTransaction calls, every shift's transaction_count and total_sales
\* are >= 0, also when a transaction sold before the open shift started, or
\* while no shift was open, is refunded during that shift.
C26_CountersNonNegative ==
    Quiescent =>
        \A k \in DOMAIN shifts :
            /\ shifts[k].transaction_count >= 0
            /\ shifts[k].total_sales >= 0

\* The quantity of variant v on the stored items of the transactions with
\* ids in S.
RECURSIVE QuantityOf(_, _)
QuantityOf(S, v) ==
    IF S = {} THEN 0
    ELSE LET k == CHOOSE x \in S : TRUE
         IN  ItemQuantity(transaction_items, k, v) + QuantityOf(S \ {k}, v)

\* The stored transactions with the given status.
WithStatus(status) ==
    {k \in DOMAIN transactions : transactions[k].status = status}

\* C27: when two refundTransaction requests for one transaction interleave,
\* its quantities are restored to stock at most once and the open shift's
\* counters are decremented at most once.  With sales and refunds only and
\* one shift open throughout, once all requests have returned no variant
\* holds more than its initial stock minus the completed sales, and the
\* shift's counters are not below the completed sales.
C27_RefundAtMostOnce ==
    Quiescent =>
        /\ \A v \in VariantIds :
              stock_quantity[v]
                  <= InitStock[v] - QuantityOf(WithStatus("completed"), v)
        /\ shifts[1].transaction_count >= Cardinality(WithStatus("completed"))
        /\ shifts[1].total_sales >= TotalOf(WithStatus("completed"))

\* C28: when endShift interleaves with a createTransaction of the same
\* cashier, the closed shift's total_sales and transaction_count cover every
\* completed transaction of that cashier created from start_time to
\* end_time: the step that closes a shift stores totals that leave out no
\* such sale stored by then, one inserted after endShift's recomputation
\* query included.
C28_ClosedShiftCoversSales ==
    [][\A k \in DOMAIN shifts :
          (shifts[k].end_time = NULL /\ shifts'[k].end_time # NULL) =>
              /\ shifts'[k].transaction_count
                     >= Cardinality(CompletedInShift(shifts[k]))'
              /\ shifts'[k].total_sales
                     >= TotalOf(CompletedInShift(shifts[k]))']_vars

\* C29: stock conservation.  After any sequence of createTransaction and
\* refundTransaction calls run one at a time, with no manual stock update,
\* each variant's stock_quantity is its initial stock minus the quantities
\* of that variant on the items of the transactions with status 'completed'.
C29_StockConservation ==
    Quiescent =>
        \A v \in VariantIds :
            stock_quantity[v]
                = InitStock[v] - QuantityOf(WithStatus("completed"), v)

\* A refunded sale of two lines next to a completed sale, after the calls
\* returned.
C29_Witness ==
    /\ Quiescent
    /\ \E j \in WithStatus("refunded") :
          Cardinality({k \in DOMAIN transaction_items :
                          transaction_items[k].transaction_id = j}) = 2
    /\ \E j \in WithStatus("completed"), v \in VariantIds :
          ItemQuantity(transaction_items, j, v) > 0

\* C30: every stored transaction has total_amount >= 0 and every stored
\* transaction item has total_price >= 0: createTransaction stores no sale
\* whose item discount exceeds unit_price * quantity or whose transaction
\* discount exceeds the subtotal.
C30_AmountsNonNegative ==
    /\ \A k \in DOMAIN transactions : transactions[k].total_amount >= 0
    /\ \A k \in DOMAIN transaction_items :
          transaction_items[k].total_price >= 0

====
